---- MODULE Spec2Model ----
(***************************************************************************)
(* Model of sixtyfps_runtime/corelib/rtti.rs: the type-erased accessors    *)
(* (PropertyInfo, FieldInfo) over the reactive cells and plain fields of   *)
(* one item.                                                               *)
(*                                                                         *)
(* The item has two cells of an interpolatable concrete type (a, b: f32),  *)
(* one cell of a type without interpolation (s: SharedString) and one      *)
(* plain field (n: i32).  The accessors are modelled from rtti.rs; the     *)
(* reactive cell (crate::Property), the animation evaluation and the       *)
(* conversions between the dynamic value and the concrete types live       *)
(* outside rtti.rs and are modelled from the specification.                *)
(***************************************************************************)
EXTENDS Integers, FiniteSets, Sequences, TLC

\* ---------------------------------------------------------------- bounds

\* Largest integer a caller passes in a dynamic value.
MaxInt == 1

\* Number of value transitions (animations) started in one behaviour.
MaxAnimations == 2

\* Concrete f32 values are fixed-point numbers: Unit stands for 1.0.  Every
\* transition samples its midpoint at a quarter or a half of the distance, so
\* Unit makes every sample of MaxAnimations nested transitions exact.
Unit == 4 ^ MaxAnimations

\* ------------------------------------------------- the dynamic value domain

\* The dynamic value: a closed tagged union.  The payload is a number for
\* every variant (Bool: 0/1, Text: 0 is "", 1 is "t", Float: fixed point).
ValueInt(n) == [tag |-> "Int", v |-> n]
ValueFloat(q) == [tag |-> "Float", v |-> q]
ValueBool(x) == [tag |-> "Bool", v |-> x]
ValueText(t) == [tag |-> "Text", v |-> t]
ValueResource(r) == [tag |-> "Resource", v |-> r]
ValueVoid == [tag |-> "Void", v |-> 0]

\* The dynamic values callers pass and closures yield.
DynValues == {ValueInt(n) : n \in 0..MaxInt} \cup {ValueBool(1), ValueText(1)}

\* Result of a fallible conversion.
ConvOk(x) == [ok |-> TRUE, val |-> x]
ConvErr == [ok |-> FALSE, val |-> 0]

\* Value: TryInto<T>, from the dynamic value into the concrete type ty.
TryIntoConcrete(ty, v) ==
    CASE ty = "f32" /\ v.tag = "Int" -> ConvOk(v.v * Unit)
      [] ty = "f32" /\ v.tag = "Float" -> ConvOk(v.v)
      [] ty = "i32" /\ v.tag = "Int" -> ConvOk(v.v)
      [] ty = "text" /\ v.tag = "Text" -> ConvOk(v.v)
      [] OTHER -> ConvErr

\* T: TryInto<Value>, from the concrete type ty into the dynamic value.
TryIntoValue(ty, x) ==
    CASE ty = "f32" -> [ok |-> TRUE, val |-> ValueFloat(x)]
      [] ty = "i32" -> [ok |-> TRUE, val |-> ValueInt(x)]
      [] ty = "text" -> [ok |-> TRUE, val |-> ValueText(x)]
      [] OTHER -> [ok |-> FALSE, val |-> ValueVoid]

\* ------------------------------------------------------------------ the item

Cells == {"a", "b", "s"}

\* Concrete type of each cell.
TypeOf(c) == IF c = "s" THEN "text" ELSE "f32"

\* T: InterpolatedPropertyValue
Interpolatable(ty) == ty = "f32"

\* PropertyAnimation descriptors (opaque to the accessors), both monotonic.
Curves == {"linear", "ease_in"}

\* Closures handed to set_binding: Box<dyn Fn() -> Value>.  They read env.
Closures == {"kText", "kEnv", "kFlip"}

\* What closure k yields when called in environment e.
CallClosure(k, e) ==
    CASE k = "kText" -> ValueText(1)
      [] k = "kEnv" -> IF e = 0 THEN ValueInt(1) ELSE ValueBool(1)
      [] k = "kFlip" -> IF e = 0 THEN ValueInt(1) ELSE ValueInt(0)

\* Whether closure k depends on env (the cell's dependency tracking).
ReadsEnv(k) == k \in {"kEnv", "kFlip"}

\* Transition suppliers: Box<dyn Fn() -> (PropertyAnimation, Instant)>.
Suppliers == {"sEnv"}

\* What supplier p returns when called in environment e.
CallSupplier(p, e) ==
    IF e = 0 THEN [curve |-> "linear", start |-> 0]
             ELSE [curve |-> "ease_in", start |-> 1]

\* AnimatedBindingKind
NotAnimated == [kind |-> "NotAnimated", curve |-> "-", supplier |-> "-"]
Animation(a) == [kind |-> "Animation", curve |-> a, supplier |-> "-"]
Transition(p) == [kind |-> "Transition", curve |-> "-", supplier |-> p]

\* The descriptors callers pass: they animate along the linear curve; the
\* ease-in curve comes from the transition supplier.
AnimatedBindingKind == {NotAnimated, Animation("linear")} \cup {Transition(p) : p \in Suppliers}

\* Option<PropertyAnimation>
None == "None"
Some(a) == a

\* as_animation that turns a Transition into an animation.
as_animation_TransitionAnimates(d) ==
    CASE d.kind = "NotAnimated" -> None
      [] d.kind = "Animation" -> Some(d.curve)
      [] d.kind = "Transition" -> Some("linear")

\* AnimatedBindingKind::as_animation
as_animation(d) ==
    CASE d.kind = "NotAnimated" -> None
      [] d.kind = "Animation" -> Some(d.curve)
      [] d.kind = "Transition" -> None

\* ------------------------------------------------------------- the state

VARIABLES
    scenario, \* the part of the item the caller works on in this run
    cells,   \* the reactive cells of the item
    field,   \* the plain i32 field n of the item
    env,     \* the state the closures and suppliers read
    anims,   \* transitions started so far
    status,  \* "running", or "panicked" once the fatal condition was hit
    shapes,  \* the (curve, start instant) pairs of the transitions activated by suppliers
    last     \* the last call: operation, accessor, arguments and what it returned

vars == <<scenario, cells, field, env, anims, status, shapes, last>>

\* ------------------------------------------------------- the reactive cell

\* A cell: the observed value, the attached binding (kind "none", "plain",
\* "animated", "transition" or "two_way"; closure f; the fixed curve or the
\* supplier), whether the binding must be evaluated again, and the running
\* value transition (from, to, curve, start instant, phase).
NoAnimation == [on |-> FALSE, from |-> 0, to |-> 0, curve |-> "-", start |-> 0, phase |-> "-"]
NoBinding == [kind |-> "none", f |-> "-", curve |-> "-", supplier |-> "-"]
NewCell(x) == [value |-> x, binding |-> NoBinding, dirty |-> FALSE, anim |-> NoAnimation]

\* A running transition from x to y along curve a, started at instant t.
StartAnimation(x, y, a, t) == [on |-> TRUE, from |-> x, to |-> y, curve |-> a, start |-> t, phase |-> "start"]

\* The sample of a transition at its midpoint: half of the way along the
\* linear curve, a quarter of the way along the ease-in curve.
MidValue(an) ==
    IF an.curve = "linear" THEN an.from + (2 * (an.to - an.from)) \div 4
                           ELSE an.from + (an.to - an.from) \div 4
\* The state the cell operations work on: the cells and the number of
\* transitions started so far.  Every cell operation returns the new state
\* with what it reports: panic (the fatal condition was hit), val (the value
\* read) and sup (a transition supplier was invoked).
CellResult(cs, n, x, pan, su) == [cells |-> cs, anims |-> n, val |-> x, panic |-> pan, sup |-> su]

\* Property::set: an instantaneous write.  It replaces the binding and any
\* running transition, except that a two-way binding intercepts the write and
\* hands it to every cell linked with this one.
property_set(w, c, x) ==
    IF w.cells[c].binding.kind = "two_way"
    THEN CellResult([d \in Cells |-> IF w.cells[d].binding.kind = "two_way"
                                     THEN [w.cells[d] EXCEPT !.value = x]
                                     ELSE w.cells[d]],
                    w.anims, x, FALSE, FALSE)
    ELSE CellResult([w.cells EXCEPT ![c] = NewCell(x)], w.anims, x, FALSE, FALSE)

\* Property::set_animated_value: starts a transition from the current value
\* to x along curve a; the value is written only as the transition runs.
property_set_animated_value(w, c, x, a) ==
    CellResult([w.cells EXCEPT ![c] = [value |-> w.cells[c].value, binding |-> NoBinding, dirty |-> FALSE,
                                       anim |-> StartAnimation(w.cells[c].value, x, a, 0)]],
               w.anims + 1, x, FALSE, FALSE)

\* Property::set_binding and its animated variants: the closure is stored and
\* marked for evaluation; it is not called here.
property_set_binding(w, c, bkind, k, a, p) ==
    CellResult([w.cells EXCEPT ![c] = [value |-> w.cells[c].value,
                                       binding |-> [kind |-> bkind, f |-> k, curve |-> a, supplier |-> p],
                                       dirty |-> TRUE, anim |-> NoAnimation]],
               w.anims, w.cells[c].value, FALSE, FALSE)
\* The closure the plain accessor installs: it calls the caller's closure k
\* and converts what it yields; a failed conversion is fatal (expect).
PlainBindingClosure(ty, k, e) ==
    LET conv == TryIntoConcrete(ty, CallClosure(k, e))
    IN  IF conv.ok THEN [panic |-> FALSE, val |-> conv.val] ELSE [panic |-> TRUE, val |-> 0]

\* The closure the animation-capable accessor installs with a fixed curve.
AnimationBindingClosure(ty, k, e) ==
    LET conv == TryIntoConcrete(ty, CallClosure(k, e))
    IN  IF conv.ok THEN [panic |-> FALSE, val |-> conv.val] ELSE [panic |-> TRUE, val |-> 0]

\* TransitionBindingClosure with unwrap_or_default in place of expect.
TransitionBindingClosure_Default(ty, k, e) ==
    LET conv == TryIntoConcrete(ty, CallClosure(k, e))
    IN  [panic |-> FALSE, val |-> conv.val]

\* The closure the animation-capable accessor installs with a supplier.
TransitionBindingClosure(ty, k, e) ==
    LET conv == TryIntoConcrete(ty, CallClosure(k, e))
    IN  IF conv.ok THEN [panic |-> FALSE, val |-> conv.val] ELSE [panic |-> TRUE, val |-> 0]

\* The call of the closure installed in a cell.
InstalledClosure(b, ty, e) ==
    CASE b.kind = "plain" -> PlainBindingClosure(ty, b.f, e)
      [] b.kind = "animated" -> AnimationBindingClosure(ty, b.f, e)
      [] b.kind = "transition" -> TransitionBindingClosure(ty, b.f, e)

\* Property::get: evaluates the binding when it is marked for evaluation.  A
\* plain binding writes what it yields; an animated binding starts a
\* transition to it along the fixed curve; a transition binding is
\* (re)activated: its supplier is called and the transition uses the curve and
\* the start instant it returns.
property_get(w, c, e) ==
    LET cell == w.cells[c]
        b == cell.binding
    IN  IF b.kind \in {"none", "two_way"} \/ ~cell.dirty
        THEN CellResult(w.cells, w.anims, cell.value, FALSE, FALSE)
        ELSE LET r == InstalledClosure(b, TypeOf(c), e)
                 sp == CallSupplier(b.supplier, e)
             IN  CASE r.panic -> CellResult(w.cells, w.anims, cell.value, TRUE, FALSE)
                   [] ~r.panic /\ b.kind = "plain" ->
                        CellResult([w.cells EXCEPT ![c] = [cell EXCEPT !.value = r.val, !.dirty = FALSE]],
                                   w.anims, r.val, FALSE, FALSE)
                   [] ~r.panic /\ b.kind = "animated" ->
                        CellResult([w.cells EXCEPT ![c] = [cell EXCEPT !.dirty = FALSE,
                                        !.anim = StartAnimation(cell.value, r.val, b.curve, 0)]],
                                   w.anims + 1, cell.value, FALSE, FALSE)
                   [] ~r.panic /\ b.kind = "transition" ->
                        CellResult([w.cells EXCEPT ![c] = [cell EXCEPT !.dirty = FALSE,
                                        !.anim = StartAnimation(cell.value, r.val, sp.curve, sp.start)]],
                                   w.anims + 1, cell.value, FALSE, TRUE)

\* Property::link_two_way(p1, p2): both cells get a two-way binding to one
\* shared value, which starts as the value read from p2.
property_link_two_way(w, c1, c2, e) ==
    LET g == property_get(w, c2, e)
        linked == [value |-> g.val, binding |-> [kind |-> "two_way", f |-> "-", curve |-> "-", supplier |-> "-"],
                   dirty |-> FALSE, anim |-> NoAnimation]
    IN  IF g.panic THEN g
        ELSE CellResult([d \in Cells |-> IF d \in {c1, c2} THEN linked ELSE g.cells[d]],
                        g.anims, g.val, FALSE, g.sup)

\* One step of the animation evaluator on a running transition: from the
\* start to the midpoint sample, from the midpoint to the end, where the cell
\* holds the target and the transition is over.
advance_animation(cell) ==
    IF cell.anim.phase = "start"
    THEN [cell EXCEPT !.value = MidValue(cell.anim), !.anim.phase = "mid"]
    ELSE [cell EXCEPT !.value = cell.anim.to, !.anim = NoAnimation]
\* ------------------------------------------------------------ the accessors

\* What an accessor call returns: res is "Ok", "Err" (the unit error of
\* Result<_, ()>) or "Panic"; out is the dynamic value of a successful get.
Returned(res, out, r) == [res |-> res, out |-> out, cells |-> r.cells, anims |-> r.anims, sup |-> r.sup]
Unchanged(w) == CellResult(w.cells, w.anims, 0, FALSE, FALSE)

\* FieldOffset::get_byte_offset
get_byte_offset(c) == CASE c = "a" -> 0 [] c = "b" -> 1 [] c = "s" -> 2

\* PropertyInfo::get for FieldOffset<Item, Property<T>>
PlainGet(w, c, e) ==
    LET g == property_get(w, c, e)
        conv == TryIntoValue(TypeOf(c), g.val)
    IN  IF g.panic THEN Returned("Panic", ValueVoid, g)
        ELSE IF conv.ok THEN Returned("Ok", conv.val, g)
        ELSE Returned("Err", ValueVoid, g)

\* PlainSet with the animation argument ignored.
PlainSet_IgnoresAnimation(w, c, v, animation) ==
    LET conv == TryIntoConcrete(TypeOf(c), v)
    IN  IF ~conv.ok THEN Returned("Err", ValueVoid, Unchanged(w))
        ELSE Returned("Ok", ValueVoid, property_set(w, c, conv.val))

\* PlainSet that reports success without writing the cell.
PlainSet_NoWrite(w, c, v, animation) ==
    LET conv == TryIntoConcrete(TypeOf(c), v)
    IN  IF animation # None THEN Returned("Err", ValueVoid, Unchanged(w))
        ELSE IF ~conv.ok THEN Returned("Err", ValueVoid, Unchanged(w))
        ELSE Returned("Ok", ValueVoid, Unchanged(w))

\* PropertyInfo::set for FieldOffset<Item, Property<T>>
PlainSet(w, c, v, animation) ==
    LET conv == TryIntoConcrete(TypeOf(c), v)
    IN  IF animation # None THEN Returned("Err", ValueVoid, Unchanged(w))
        ELSE IF ~conv.ok THEN Returned("Err", ValueVoid, Unchanged(w))
        ELSE Returned("Ok", ValueVoid, property_set(w, c, conv.val))

\* PlainSetBinding that calls the closure once when it is attached and
\* rejects a binding whose first output does not convert.
PlainSetBinding_ChecksAtAttach(w, c, k, d) ==
    IF d.kind # "NotAnimated" THEN Returned("Err", ValueVoid, Unchanged(w))
    ELSE IF ~TryIntoConcrete(TypeOf(c), CallClosure(k, env)).ok THEN Returned("Err", ValueVoid, Unchanged(w))
    ELSE Returned("Ok", ValueVoid, property_set_binding(w, c, "plain", k, "-", "-"))

\* PropertyInfo::set_binding for FieldOffset<Item, Property<T>>
PlainSetBinding(w, c, k, d) ==
    IF d.kind # "NotAnimated" THEN Returned("Err", ValueVoid, Unchanged(w))
    ELSE Returned("Ok", ValueVoid, property_set_binding(w, c, "plain", k, "-", "-"))

\* PropertyInfo::offset for FieldOffset<Item, Property<T>>
PlainOffset(c) == get_byte_offset(c)

\* PlainLinkTwoWays that passes the cell itself instead of property2.
PlainLinkTwoWays_SelfLink(w, c, property2, e) ==
    LET r == property_link_two_way(w, c, c, e)
    IN  Returned(IF r.panic THEN "Panic" ELSE "Ok", ValueVoid, r)

\* PropertyInfo::link_two_ways for FieldOffset<Item, Property<T>>
PlainLinkTwoWays(w, c, property2, e) ==
    LET r == property_link_two_way(w, c, property2, e)
    IN  Returned(IF r.panic THEN "Panic" ELSE "Ok", ValueVoid, r)

\* PropertyInfo::get for MaybeAnimatedPropertyInfoWrapper
AnimatedGet(w, c, e) == PlainGet(w, c, e)

\* AnimatedSet that starts the transition to the default value when the
\* conversion fails.
AnimatedSet_DefaultOnError(w, c, v, animation) ==
    LET conv == TryIntoConcrete(TypeOf(c), v)
    IN  IF animation # None
        THEN Returned("Ok", ValueVoid, property_set_animated_value(w, c, conv.val, animation))
        ELSE PlainSet(w, c, v, None)

\* AnimatedSet that writes the target at once, whatever the animation.
AnimatedSet_Instant(w, c, v, animation) ==
    LET conv == TryIntoConcrete(TypeOf(c), v)
    IN  IF ~conv.ok THEN Returned("Err", ValueVoid, Unchanged(w))
        ELSE Returned("Ok", ValueVoid, property_set(w, c, conv.val))

\* PropertyInfo::set for MaybeAnimatedPropertyInfoWrapper
AnimatedSet(w, c, v, animation) ==
    LET conv == TryIntoConcrete(TypeOf(c), v)
    IN  IF animation # None
        THEN IF ~conv.ok THEN Returned("Err", ValueVoid, Unchanged(w))
             ELSE Returned("Ok", ValueVoid, property_set_animated_value(w, c, conv.val, animation))
        ELSE PlainSet(w, c, v, None)

\* AnimatedSetBinding that attaches a Transition binding with one fixed curve
\* instead of handing over the supplier.
AnimatedSetBinding_FixedCurve(w, c, k, d) ==
    CASE d.kind = "NotAnimated" -> PlainSetBinding(w, c, k, NotAnimated)
      [] d.kind = "Animation" ->
            Returned("Ok", ValueVoid, property_set_binding(w, c, "animated", k, d.curve, "-"))
      [] d.kind = "Transition" ->
            Returned("Ok", ValueVoid, property_set_binding(w, c, "animated", k, "linear", d.supplier))

\* PropertyInfo::set_binding for MaybeAnimatedPropertyInfoWrapper
AnimatedSetBinding(w, c, k, d) ==
    CASE d.kind = "NotAnimated" -> PlainSetBinding(w, c, k, NotAnimated)
      [] d.kind = "Animation" ->
            Returned("Ok", ValueVoid, property_set_binding(w, c, "animated", k, d.curve, "-"))
      [] d.kind = "Transition" ->
            Returned("Ok", ValueVoid, property_set_binding(w, c, "transition", k, "-", d.supplier))

\* PropertyInfo::offset for MaybeAnimatedPropertyInfoWrapper
AnimatedOffset(c) == get_byte_offset(c)

\* AnimatedLinkTwoWays with the two cells passed in the other order.
AnimatedLinkTwoWays_Reversed(w, c, property2, e) ==
    LET r == property_link_two_way(w, property2, c, e)
    IN  Returned(IF r.panic THEN "Panic" ELSE "Ok", ValueVoid, r)

\* PropertyInfo::link_two_ways for MaybeAnimatedPropertyInfoWrapper
AnimatedLinkTwoWays(w, c, property2, e) ==
    LET r == property_link_two_way(w, c, property2, e)
    IN  Returned(IF r.panic THEN "Panic" ELSE "Ok", ValueVoid, r)

\* FieldInfo::set_field for FieldOffset<Item, T>, on the i32 field: the new
\* field value and the result.
set_field(old, v) ==
    LET conv == TryIntoConcrete("i32", v)
    IN  IF conv.ok THEN [res |-> "Ok", field |-> conv.val] ELSE [res |-> "Err", field |-> old]

\* The accessors an item registers or reaches for a cell: the plain one for
\* every cell, the animation-capable one for an interpolatable type.
AccessorsOf(c) == IF Interpolatable(TypeOf(c)) THEN {"plain", "animated"} ELSE {"plain"}

\* Dispatch through dyn PropertyInfo.
Get(acc, w, c, e) == IF acc = "plain" THEN PlainGet(w, c, e) ELSE AnimatedGet(w, c, e)
Set(acc, w, c, v, animation) == IF acc = "plain" THEN PlainSet(w, c, v, animation) ELSE AnimatedSet(w, c, v, animation)
SetBinding(acc, w, c, k, d) == IF acc = "plain" THEN PlainSetBinding(w, c, k, d) ELSE AnimatedSetBinding(w, c, k, d)
Offset(acc, c) == IF acc = "plain" THEN PlainOffset(c) ELSE AnimatedOffset(c)
LinkTwoWays(acc, w, c, p2, e) == IF acc = "plain" THEN PlainLinkTwoWays(w, c, p2, e) ELSE AnimatedLinkTwoWays(w, c, p2, e)
\* ------------------------------------------------------------ the program

World == [cells |-> cells, anims |-> anims]

Call(op, acc, c, v, k, d, p2, res, out, sup) ==
    [op |-> op, acc |-> acc, cell |-> c, arg |-> v, k |-> k, desc |-> d, peer |-> p2,
     res |-> res, out |-> out, sup |-> sup]

\* The runs: "single" works on cell a with every operation; "linked" works on
\* the cells a and b with get, set without animation, offset and
\* link_two_ways; "plain" works on
\* the text cell s and the plain field n.
Scenarios == {"single", "linked", "plain"}

InScope(c) ==
    CASE scenario = "single" -> c = "a"
      [] scenario = "linked" -> c \in {"a", "b"}
      [] scenario = "plain" -> c = "s"

Init ==
    /\ scenario \in Scenarios
    /\ cells = [c \in Cells |-> NewCell(0)]
    /\ field = 0
    /\ env = 0
    /\ anims = 0
    /\ status = "running"
    /\ shapes = {}
    /\ last = Call("new", "-", "-", ValueVoid, "-", NotAnimated, "-", "Ok", ValueVoid, FALSE)

\* The state after an accessor call that returned r and read cell c.
Commit(r, c) ==
    /\ r.anims <= MaxAnimations
    /\ cells' = r.cells
    /\ anims' = r.anims
    /\ status' = IF r.res = "Panic" THEN "panicked" ELSE "running"
    /\ shapes' = IF r.sup
                 THEN shapes \cup {[curve |-> r.cells[c].anim.curve, start |-> r.cells[c].anim.start]}
                 ELSE shapes

DoGet(acc, c) ==
    LET r == Get(acc, World, c, env)
    IN  /\ status = "running"
        /\ InScope(c)
        /\ Commit(r, c)
        /\ last' = Call("get", acc, c, ValueVoid, "-", NotAnimated, "-", r.res, r.out, r.sup)
        /\ UNCHANGED <<scenario, field, env>>

\* set(item, v, d.as_animation()): the animation argument is what a caller
\* holding the descriptor d passes.
DoSet(acc, c, v, d) ==
    LET r == Set(acc, World, c, v, as_animation(d))
    IN  /\ status = "running"
        /\ InScope(c)
        /\ scenario = "linked" => as_animation(d) = None
        /\ Commit(r, c)
        /\ last' = Call("set", acc, c, v, "-", d, "-", r.res, r.out, r.sup)
        /\ UNCHANGED <<scenario, field, env>>

DoSetBinding(acc, c, k, d) ==
    LET r == SetBinding(acc, World, c, k, d)
    IN  /\ status = "running"
        /\ InScope(c)
        /\ scenario # "linked"
        /\ Commit(r, c)
        /\ last' = Call("set_binding", acc, c, ValueVoid, k, d, "-", r.res, r.out, r.sup)
        /\ UNCHANGED <<scenario, field, env>>

DoOffset(acc, c) ==
    /\ status = "running"
    /\ InScope(c)
    /\ last' = Call("offset", acc, c, ValueVoid, "-", NotAnimated, "-", "Ok", ValueInt(Offset(acc, c)), FALSE)
    /\ UNCHANGED <<scenario, cells, field, env, anims, status, shapes>>

\* property2 points to another live cell of the same concrete type (the
\* precondition of the unsafe function).
DoLinkTwoWays(acc, c, property2) ==
    LET r == LinkTwoWays(acc, World, c, property2, env)
    IN  /\ status = "running"
        /\ InScope(c)
        /\ InScope(property2)
        /\ property2 # c
        /\ TypeOf(property2) = TypeOf(c)
        /\ Commit(r, property2)
        /\ last' = Call("link_two_ways", acc, c, ValueVoid, "-", NotAnimated, property2, r.res, r.out, r.sup)
        /\ UNCHANGED <<scenario, field, env>>

DoSetField(v) ==
    LET r == set_field(field, v)
    IN  /\ status = "running"
        /\ scenario = "plain"
        /\ field' = r.field
        /\ last' = Call("set_field", "-", "n", v, "-", NotAnimated, "-", r.res, ValueVoid, FALSE)
        /\ UNCHANGED <<scenario, cells, env, anims, status, shapes>>

\* The animation evaluator advances the running transition of a cell.
Tick(c) ==
    /\ status = "running"
    /\ cells[c].anim.on
    /\ cells' = [cells EXCEPT ![c] = advance_animation(cells[c])]
    /\ last' = Call("tick", "-", c, ValueVoid, "-", NotAnimated, "-", "Ok", ValueVoid, FALSE)
    /\ UNCHANGED <<scenario, field, env, anims, status, shapes>>

\* The state the closures read changes: the bindings that depend on it are
\* marked for evaluation.
ChangeEnv ==
    /\ status = "running"
    /\ scenario # "linked"
    /\ env' = 1 - env
    /\ cells' = [c \in Cells |-> IF cells[c].binding.kind \in {"plain", "animated", "transition"}
                                     /\ ReadsEnv(cells[c].binding.f)
                                  THEN [cells[c] EXCEPT !.dirty = TRUE] ELSE cells[c]]
    /\ last' = Call("env", "-", "-", ValueVoid, "-", NotAnimated, "-", "Ok", ValueVoid, FALSE)
    /\ UNCHANGED <<scenario, field, anims, status, shapes>>

Next ==
    \/ \E c \in Cells : \E acc \in AccessorsOf(c) : DoGet(acc, c)
    \/ \E c \in Cells : \E acc \in AccessorsOf(c) : \E v \in DynValues : \E d \in AnimatedBindingKind :
            DoSet(acc, c, v, d)
    \/ \E c \in Cells : \E acc \in AccessorsOf(c) : \E k \in Closures : \E d \in AnimatedBindingKind :
            DoSetBinding(acc, c, k, d)
    \/ \E c \in Cells : \E acc \in AccessorsOf(c) : DoOffset(acc, c)
    \/ \E c \in Cells : \E acc \in AccessorsOf(c) : \E p2 \in Cells : DoLinkTwoWays(acc, c, p2)
    \/ \E v \in DynValues : DoSetField(v)
    \/ \E c \in Cells : Tick(c)
    \/ ChangeEnv

Spec == Init /\ [][Next]_vars
\* ----------------------------------------------------------------- claims

\* The cell operations leave the states "running" and "panicked" only.
TypeOK ==
    /\ scenario \in Scenarios
    /\ status \in {"running", "panicked"}
    /\ env \in {0, 1}
    /\ anims \in 0..MaxAnimations
    /\ field \in 0..MaxInt
    /\ last.res \in {"Ok", "Err", "Panic"}

Converts(c, v) == TryIntoConcrete(TypeOf(c), v).ok
Converted(c, v) == TryIntoConcrete(TypeOf(c), v).val

\* The call asked for an animation: set with Some(animation), set_binding
\* with a descriptor other than NotAnimated.
AnimationRequested(l) ==
    \/ l.op = "set" /\ as_animation(l.desc) # None
    \/ l.op = "set_binding" /\ l.desc.kind # "NotAnimated"

\* C1: on the plain accessor, set with an animation and set_binding with an
\* Animation or Transition descriptor return the error, whatever the value or
\* the closure, and the cell's value and binding stay what they were.
C1_PlainRejectsAnimation ==
    [][(last'.acc = "plain" /\ last'.op \in {"set", "set_binding"} /\ AnimationRequested(last'))
        => (last'.res = "Err" /\ cells' = cells /\ anims' = anims /\ status' = status)]_vars

\* C1 happens: the plain accessor rejected an animated set of a convertible
\* value on a cell that holds a binding.
C1_Witness ==
    /\ last.acc = "plain" /\ last.op = "set" /\ AnimationRequested(last)
    /\ Converts(last.cell, last.arg)
    /\ last.res = "Err"
    /\ cells[last.cell].binding.kind = "plain"

\* C2: a set (plain accessor, animation-capable accessor with or without an
\* animation) or a set_field whose dynamic value does not convert to the
\* concrete type returns the error and writes nothing: no value change, no
\* transition started, no binding removed.
C2_ConversionErrorKeepsValue ==
    [][/\ (last'.op = "set" /\ ~Converts(last'.cell, last'.arg))
            => (last'.res = "Err" /\ cells' = cells /\ anims' = anims)
       /\ (last'.op = "set_field" /\ ~TryIntoConcrete("i32", last'.arg).ok)
            => (last'.res = "Err" /\ field' = field)]_vars

\* C2 happens: an animated set of a value that does not convert was rejected
\* on a cell that holds a binding and a value other than the default.
C2_Witness ==
    /\ last.op = "set" /\ last.acc = "animated" /\ last.desc.kind = "Animation"
    /\ ~Converts(last.cell, last.arg)
    /\ last.res = "Err"
    /\ cells[last.cell].binding.kind # "none"
    /\ cells[last.cell].value # 0

\* C3: after a set without animation returned success, a get issued next on
\* the same cell returns success with a dynamic value that converts to the
\* same concrete value as the value that was set.
C3_RoundTrip ==
    (last.op = "set" /\ last.res = "Ok" /\ as_animation(last.desc) = None)
        => LET g == Get(last.acc, World, last.cell, env)
           IN  /\ g.res = "Ok"
               /\ Converts(last.cell, g.out)
               /\ Converted(last.cell, g.out) = Converted(last.cell, last.arg)

\* C3 happens: the integer 1 was set on a floating-point cell and the get
\* returns the floating-point variant holding 1.0.
C3_Witness ==
    /\ last.op = "set" /\ last.res = "Ok" /\ as_animation(last.desc) = None
    /\ last.arg = ValueInt(1)
    /\ TypeOf(last.cell) = "f32"
    /\ Get(last.acc, World, last.cell, env).out = ValueFloat(Unit)
\* The two cells are linked: each holds the two-way binding.
Linked(c, d) == cells[c].binding.kind = "two_way" /\ cells[d].binding.kind = "two_way"

\* The other cell of the linked pair.
Other(c) == IF c = "a" THEN "b" ELSE "a"

\* C4: link_two_ways(a, b) links the two cells, and from then on, through any
\* sequence of sets without animation on either cell, the cells stay linked
\* and a get on the other cell returns the value of the last set: the two
\* cells hold equal values in every state after the link.
C4_LinkPropagates ==
    /\ [](  /\ (last.op = "link_two_ways" /\ last.res = "Ok") => Linked(last.cell, last.peer)
            /\ Linked("a", "b") => (cells["a"].value = cells["b"].value)
            /\ (Linked("a", "b") /\ last.op = "set" /\ last.res = "Ok")
                    => LET g == Get(last.acc, World, Other(last.cell), env)
                       IN  g.res = "Ok" /\ Converted(last.cell, g.out) = Converted(last.cell, last.arg))
    /\ [][(Linked("a", "b") /\ last'.op = "set" /\ as_animation(last'.desc) = None)
            => Linked("a", "b")']_vars

\* C4 happens: the cells were linked while they held 0.0, then 1.0 was set
\* on b, and a holds it.
C4_Witness ==
    /\ Linked("a", "b")
    /\ last.op = "set" /\ last.cell = "b" /\ last.res = "Ok" /\ last.arg = ValueInt(1)
    /\ cells["a"].value = Unit

\* C5: on the animation-capable accessor, set with an Animation descriptor
\* and a convertible target does not write the target: the cell keeps its
\* value and a transition from it to the converted target starts; while a
\* transition between two different values runs, the cell holds the old
\* value at the start and a value strictly between the old and the new one at
\* the midpoint, and it holds the target only once the transition has ended.
C5_AnimatedSetTransitions ==
    /\ [](\A c \in Cells :
            (cells[c].anim.on /\ cells[c].anim.from # cells[c].anim.to)
                => LET an == cells[c].anim
                       lo == IF an.from < an.to THEN an.from ELSE an.to
                       hi == IF an.from < an.to THEN an.to ELSE an.from
                   IN  /\ (an.phase = "start") => (cells[c].value = an.from)
                       /\ (an.phase = "mid") => (lo < cells[c].value /\ cells[c].value < hi)
                       /\ cells[c].value # an.to)
    /\ [][(last'.op = "set" /\ last'.acc = "animated" /\ last'.desc.kind = "Animation"
            /\ Converts(last'.cell, last'.arg))
            => (/\ last'.res = "Ok"
                /\ cells'[last'.cell].value = cells[last'.cell].value
                /\ cells'[last'.cell].anim = StartAnimation(cells[last'.cell].value,
                        Converted(last'.cell, last'.arg), last'.desc.curve, 0))]_vars
    /\ [][(last'.op = "tick" /\ cells[last'.cell].anim.phase = "mid")
            => (cells'[last'.cell].value = cells[last'.cell].anim.to /\ ~cells'[last'.cell].anim.on)]_vars

\* C5 happens: a transition started by set from 0.0 to 1.0 is sampled at its
\* midpoint and the cell holds 0.5.
C5_Witness ==
    /\ cells["a"].binding.kind = "none"
    /\ cells["a"].anim.on /\ cells["a"].anim.phase = "mid"
    /\ cells["a"].anim.from = 0 /\ cells["a"].anim.to = Unit
    /\ cells["a"].value = Unit \div 2

\* C6 as claimed: on the animation-capable accessor, a set made with a
\* Transition descriptor (reduced to the animation argument by as_animation)
\* is rejected with the error.
C6_TransitionSetRejected ==
    (last.op = "set" /\ last.acc = "animated" /\ last.desc.kind = "Transition") => last.res = "Err"

\* C6 amended: as_animation reduces a Transition descriptor to no animation,
\* so on the animation-capable accessor a set made with it is the plain
\* instantaneous write: it succeeds exactly when the value converts, the cell
\* then holds the converted value with no transition running, and a value
\* that does not convert returns the error and leaves the cell unchanged.
C6_TransitionSetWritesInstantly ==
    /\ [](  (last.op = "set" /\ last.acc = "animated" /\ last.desc.kind = "Transition")
            => /\ last.res = (IF Converts(last.cell, last.arg) THEN "Ok" ELSE "Err")
               /\ (last.res = "Ok") => (/\ cells[last.cell].value = Converted(last.cell, last.arg)
                                        /\ ~cells[last.cell].anim.on))
    /\ [][(last'.op = "set" /\ last'.acc = "animated" /\ last'.desc.kind = "Transition"
            /\ last'.res = "Err") => cells' = cells]_vars

\* C6 happens: a set with a Transition descriptor succeeded on a cell that
\* held 0.0 and the cell holds 1.0 at once.
C6_Witness ==
    /\ last.op = "set" /\ last.acc = "animated" /\ last.desc.kind = "Transition"
    /\ last.res = "Ok"
    /\ last.arg = ValueInt(1)
    /\ cells[last.cell].value = Unit
\* The accessor accepts the descriptor of a set_binding call: NotAnimated on
\* the plain accessor, any descriptor on the animation-capable accessor.
DescriptorAccepted(l) == l.acc = "animated" \/ l.desc.kind = "NotAnimated"

\* C7 as claimed: a set_binding call with an accepted descriptor whose closure
\* yields a dynamic value that does not convert returns the error.
C7_BindingRejectedAtAttach ==
    (last.op = "set_binding" /\ DescriptorAccepted(last)
        /\ ~Converts(last.cell, CallClosure(last.k, env)))
        => last.res = "Err"

\* C7 amended: set_binding never reports a conversion error: the accessor
\* does not call the closure, and with an accepted descriptor it returns
\* success and attaches the binding, marked for evaluation, even when the
\* closure yields a value that does not convert; nothing fails at attachment.
C7_BindingAttachedUnchecked ==
    (last.op = "set_binding" /\ DescriptorAccepted(last))
        => (/\ last.res = "Ok"
            /\ status = "running"
            /\ cells[last.cell].binding.f = last.k
            /\ cells[last.cell].dirty)

\* C7 happens: a binding whose closure yields a value that does not convert
\* was attached with success through the plain accessor.
C7_Witness ==
    /\ last.op = "set_binding" /\ last.acc = "plain" /\ last.desc.kind = "NotAnimated"
    /\ ~Converts(last.cell, CallClosure(last.k, env))
    /\ last.res = "Ok"
    /\ cells[last.cell].binding.kind = "plain"

\* The cell holds a binding attached by set_binding that is marked for
\* evaluation and whose closure now yields a value that does not convert.
BadBindingPending(c) ==
    /\ cells[c].binding.kind \in {"plain", "animated", "transition"}
    /\ cells[c].dirty
    /\ ~Converts(c, CallClosure(cells[c].binding.f, env))

\* C8: once a binding is attached (plain, Animation or Transition), an
\* evaluation in which its closure yields a value that does not convert ends
\* in the fatal condition; no accessor operation returns it as an error: a
\* get returns the error in no state, and the program stops.
C8_BadBindingIsFatal ==
    /\ [][(last'.op = "get" /\ BadBindingPending(last'.cell))
            => (last'.res = "Panic" /\ status' = "panicked" /\ cells' = cells)]_vars
    /\ []((last.op = "get") => (last.res # "Err"))
    /\ []((status = "panicked") => (last.res = "Panic"))
    /\ [][(status = "panicked") => UNCHANGED vars]_vars

\* C8 happens: the get of a cell bound with a Transition descriptor hit the
\* fatal condition.
C8_Witness ==
    /\ status = "panicked"
    /\ last.op = "get" /\ last.res = "Panic"
    /\ cells[last.cell].binding.kind = "transition"

\* The cell holds a Transition binding that the next get (re)activates.
TransitionPending(c) ==
    /\ cells[c].binding.kind = "transition"
    /\ cells[c].dirty
    /\ Converts(c, CallClosure(cells[c].binding.f, env))

\* C9: set_binding with a Transition descriptor does not call the supplier
\* and hands the supplier itself to the cell; every (re)activation of the
\* binding calls it again, and the transition it starts uses the curve and
\* the start instant the supplier returns for that activation.
C9_SupplierCalledPerActivation ==
    /\ []((last.op = "set_binding" /\ last.acc = "animated" /\ last.desc.kind = "Transition")
            => (/\ ~last.sup
                /\ cells[last.cell].binding.kind = "transition"
                /\ cells[last.cell].binding.supplier = last.desc.supplier))
    /\ [][(last'.op = "get" /\ TransitionPending(last'.cell))
            => (/\ last'.sup
                /\ cells'[last'.cell].anim.on
                /\ cells'[last'.cell].anim.curve = CallSupplier(cells[last'.cell].binding.supplier, env).curve
                /\ cells'[last'.cell].anim.start = CallSupplier(cells[last'.cell].binding.supplier, env).start
                /\ shapes' = shapes \cup {CallSupplier(cells[last'.cell].binding.supplier, env)}
                /\ cells'[last'.cell].binding = cells[last'.cell].binding)]_vars

\* C9 happens: a Transition binding was activated twice, along the linear
\* curve from instant 0 and now along the ease-in curve from instant 1.
C9_Witness ==
    /\ last.op = "get" /\ last.sup
    /\ cells["a"].binding.kind = "transition"
    /\ cells["a"].anim.curve = "ease_in" /\ cells["a"].anim.start = 1
    /\ shapes = {[curve |-> "linear", start |-> 0], [curve |-> "ease_in", start |-> 1]}

\* C10: with no animation requested, the animation-capable accessor does what
\* the plain accessor does on the same cell: in every reachable state, get,
\* set without animation, set_binding with NotAnimated, offset and
\* link_two_ways return the same result and leave the same cells.
C10_NoAnimationSameAsPlain ==
    \A c \in {"a", "b"} :
        /\ AnimatedGet(World, c, env) = PlainGet(World, c, env)
        /\ \A v \in DynValues : AnimatedSet(World, c, v, None) = PlainSet(World, c, v, None)
        /\ \A k \in Closures : AnimatedSetBinding(World, c, k, NotAnimated) = PlainSetBinding(World, c, k, NotAnimated)
        /\ AnimatedOffset(c) = PlainOffset(c)
        /\ AnimatedLinkTwoWays(World, c, Other(c), env) = PlainLinkTwoWays(World, c, Other(c), env)

\* C10 happens: the cells hold different values and the animation-capable
\* accessor has just linked them.
C10_Witness ==
    /\ last.op = "link_two_ways" /\ last.acc = "animated" /\ last.res = "Ok"
    /\ cells["a"].value = Unit
    /\ Linked("a", "b")
====
